---- MODULE Spec2Model ----
(***************************************************************************)
(* Distance-vector routing simulator (src/1001628688.py): Router, Network  *)
(* and the menu operations of main() that mutate the network.              *)
(*                                                                         *)
(* A Python dict is a function whose DOMAIN is its key set.  A Queue is a  *)
(* sequence.  A DVPacket holds a REFERENCE to the sender's dict (line 154  *)
(* passes self.dv, no copy): field dv names the router owning the dict,    *)
(* and update_dv reads that router's dict as it is when the packet is      *)
(* processed.  Network.reset rebinds every router's dict and empties every *)
(* queue in the same call, so a queued packet never refers to a dict other *)
(* than its sender's current one.                                          *)
(***************************************************************************)
EXTENDS Integers, Sequences, FiniteSets, TLC

inf == 16

\* ---- bounds of the model ----
\* messages injected plus link costs changed in one run of the program
MaxInputs == 1
\* route sweeps are offered from the menu while the log is shorter than this
MaxLog == 4

Addr == {"A", "B", "C"}

\* topology files: sets of lines <<src, dst, cost>>
Line == {<<"A", "B", 1>>, <<"B", "A", 1>>, <<"B", "C", 5>>, <<"C", "B", 5>>}
OneWay == {<<"A", "B", 1>>, <<"B", "A", 1>>, <<"C", "B", 5>>}
Triangle == {<<"A", "B", 1>>, <<"B", "A", 1>>, <<"B", "C", 1>>, <<"C", "B", 1>>,
             <<"A", "C", 5>>, <<"C", "A", 5>>}
Topologies == {Line, OneWay, Triangle}

\* costs the driver may enter for "Change link cost"
CostValues == {0, 1, 17}

\* topo       the topology file the Network was built from
\* order      the iteration order of Network.routers, fixed at construction
\* costs      Router.costs of every router
\* dv         Router.dv of every router: dst -> [next_hop, cost]
\* converged  Router.converged of every router
\* queues     Network.queues: the inbound queue of every router
\* log        the events printed about Data packets, and their injections
\* pc         "menu": main() waits for a choice; "run": inside the loop of
\*            run_until_converged; "exit": an uncaught exception ended main()
\* steps      the local variable steps of run_until_converged
\* hist       the choices since the last reset (see Track)
\* nmsgs      messages injected so far (the next message is nmsgs + 1)
\* nchanges   link-cost changes made so far
VARIABLES topo, order, costs, dv, converged, queues, log, pc, steps,
          hist, nmsgs, nchanges

vars == <<topo, order, costs, dv, converged, queues, log, pc, steps,
          hist, nmsgs, nchanges>>

\* ---- helpers for dicts ----
Put(f, k, v) == [x \in DOMAIN f \cup {k} |-> IF x = k THEN v ELSE f[x]]

Entry(next_hop, cost) == [next_hop |-> next_hop, cost |-> cost]

\* keys of Router.out_queues (fixed at construction)
Neighbors(t, a) == {e[2] : e \in {x \in t : x[1] = a}}

\* Router.costs as built by Network.__init__
TopoCosts(t) ==
  [a \in Addr |-> [d \in Neighbors(t, a) |->
      (CHOOSE e \in t : e[1] = a /\ e[2] = d)[3]]]

\* iteration orders of Network.routers (a dict built from a set of strings)
Orders == {s \in [1..Cardinality(Addr) -> Addr] :
             \A i, j \in DOMAIN s : i # j => s[i] # s[j]}

\* the network state an operation works on
Cur == [dv |-> dv, converged |-> converged, queues |-> queues, log |-> log,
        raised |-> FALSE, reads |-> {}]

\* ---- Router.reset ----
ResetDv(c) == [dst \in DOMAIN c |-> Entry(dst, c[dst])]

\* ---- Router.update_dv ----
UpperBound(self, d) ==
  [x \in DOMAIN d |->
     IF x = self THEN Entry(x, 0)
     ELSE IF d[x].cost > inf THEN Entry(d[x].next_hop, inf)
     ELSE d[x]]

AddNew(d, src, dv_table) ==
  [x \in DOMAIN d \cup DOMAIN dv_table |->
     IF x \in DOMAIN d THEN d[x]
     ELSE Entry(dv_table[x].next_hop, d[src].cost + dv_table[x].cost)]

BetterVia(self, d, src, dv_table) ==
  {x \in DOMAIN dv_table \ {self} : d[src].cost + dv_table[x].cost < d[x].cost}

\* the relaxation storing the advertised cost without the cost to src
BellmanFord_NoLinkCost(self, d, src, dv_table) ==
  [x \in DOMAIN d |->
     IF x \in BetterVia(self, d, src, dv_table)
     THEN Entry(src, dv_table[x].cost)
     ELSE d[x]]

BellmanFord(self, d, src, dv_table) ==
  [x \in DOMAIN d |->
     IF x \in BetterVia(self, d, src, dv_table)
     THEN Entry(src, d[src].cost + dv_table[x].cost)
     ELSE d[x]]

\* update_dv writing (src, inf) even when src is already known
update_dv_ForgetSrc(self, d0, conv, src, dv_table) ==
  LET d1 == Put(d0, src, Entry(src, inf))
      d2 == AddNew(d1, src, dv_table)
      c2 == IF DOMAIN dv_table \ DOMAIN d1 # {} THEN 2 ELSE conv
      d3 == UpperBound(self, d2)
      d4 == BellmanFord(self, d3, src, dv_table)
      c4 == IF BetterVia(self, d3, src, dv_table) # {} THEN 2 ELSE c2
  IN  [dv |-> UpperBound(self, d4), converged |-> c4]

\* result: the router's dict and counter after update_dv(src, dv_table)
update_dv(self, d0, conv, src, dv_table) ==
  LET d1 == IF src \in DOMAIN d0 THEN d0 ELSE Put(d0, src, Entry(src, inf))
      d2 == AddNew(d1, src, dv_table)
      c2 == IF DOMAIN dv_table \ DOMAIN d1 # {} THEN 2 ELSE conv
      d3 == UpperBound(self, d2)
      d4 == BellmanFord(self, d3, src, dv_table)
      c4 == IF BetterVia(self, d3, src, dv_table) # {} THEN 2 ELSE c2
  IN  [dv |-> UpperBound(self, d4), converged |-> c4]

\* an observable event (the prints of route and read_packet), with the Data
\* packet it is about; known records whether the packet's destination was a
\* key of the router's dict when the event happened
Event(ev, at, packet, to, d) ==
  [ev |-> ev, at |-> at, msg |-> packet.msg, to |-> to,
   known |-> packet.dst \in DOMAIN d]

\* ---- Router.read_packet ----
read_packet(S, self, packet) ==
  IF packet.kind = "DV"
  THEN LET r == update_dv(self, S.dv[self], S.converged[self],
                          packet.src, S.dv[packet.dv])
       IN  [S EXCEPT !.dv[self] = r.dv, !.converged[self] = r.converged,
                     !.reads = @ \cup {[at |-> self, src |-> packet.src,
                                        sent |-> packet.sent,
                                        used |-> S.dv[packet.dv]]}]
  ELSE [S EXCEPT !.log = Append(@, Event("received", self, packet, self, S.dv[self]))]

\* route() without its drop branch: an unknown destination is read locally
RoutePacket_NoDrop(S, t, self, packet) ==
  IF packet.dst = self \/ packet.dst \notin DOMAIN S.dv[self]
  THEN read_packet(S, self, packet)
  ELSE LET next_hop == S.dv[self][packet.dst].next_hop
       IN  IF next_hop \in Neighbors(t, self)
           THEN [S EXCEPT !.queues[next_hop] = Append(@, packet),
                          !.log = Append(@, Event("forwarded", self, packet,
                                                  next_hop, S.dv[self]))]
           ELSE [S EXCEPT !.raised = TRUE,
                          !.log = Append(@, Event("KeyError", self, packet,
                                                  next_hop, S.dv[self]))]

\* ---- Router.route: one packet taken from the queue ----
RoutePacket(S, t, self, packet) ==
  IF packet.dst = self THEN read_packet(S, self, packet)
  ELSE IF packet.dst \notin DOMAIN S.dv[self]
  THEN [S EXCEPT !.log = Append(@, Event("dropped", self, packet, self, S.dv[self]))]
  ELSE LET next_hop == S.dv[self][packet.dst].next_hop
       IN  IF next_hop \in Neighbors(t, self)
           THEN [S EXCEPT !.queues[next_hop] = Append(@, packet),
                          !.log = Append(@, Event("forwarded", self, packet,
                                                  next_hop, S.dv[self]))]
           ELSE \* self.out_queues[next_hop] raises KeyError
                [S EXCEPT !.raised = TRUE,
                          !.log = Append(@, Event("KeyError", self, packet,
                                                  next_hop, S.dv[self]))]

RECURSIVE route(_, _, _)
route(S, t, self) ==
  IF S.raised \/ S.queues[self] = <<>> THEN S
  ELSE route(RoutePacket([S EXCEPT !.queues[self] = Tail(@)], t, self,
                         Head(S.queues[self])), t, self)

\* ---- Router.send_dv ----
DVPacket(S, src, dst) ==
  [kind |-> "DV", src |-> src, dst |-> dst, dv |-> src, sent |-> S.dv[src]]

\* send_dv putting a packet on every queue, not only the neighbours'
send_dv_Broadcast(S, t, self) ==
  IF S.converged[self] = 0 THEN S
  ELSE [S EXCEPT !.converged[self] = @ - 1,
                 !.queues = [a \in Addr |-> Append(S.queues[a], DVPacket(S, self, a))]]

send_dv(S, t, self) ==
  IF S.converged[self] = 0 THEN S
  ELSE [S EXCEPT !.converged[self] = @ - 1,
                 !.queues = [a \in Addr |->
                    IF a \in Neighbors(t, self)
                    THEN Append(S.queues[a], DVPacket(S, self, a))
                    ELSE S.queues[a]]]

\* ---- Network.send_dv, Network.route, Network.step, Network.is_stable ----
RECURSIVE SendAll(_, _, _)
SendAll(S, t, ord) ==
  IF ord = <<>> THEN S ELSE SendAll(send_dv(S, t, Head(ord)), t, Tail(ord))

RECURSIVE RouteAll(_, _, _)
RouteAll(S, t, ord) ==
  IF ord = <<>> \/ S.raised THEN S
  ELSE RouteAll(route(S, t, Head(ord)), t, Tail(ord))

StepOf(S, t, ord) == RouteAll(SendAll(S, t, ord), t, ord)

is_stable(conv) == \A a \in Addr : conv[a] = 0


\* ---- history of the driver's choices since construction or the last reset,
\* ---- kept while it follows one of the scenarios the properties speak of
Off == <<"other">>

Scenarios == {<<"step", "step">>,
              <<"run", "step">>,
              <<"run", "lowerAB", "step", "step", "step">>,
              <<"run", "inject", "route", "route", "route">>}

IsPrefix(s, w) == Len(s) <= Len(w) /\ SubSeq(w, 1, Len(s)) = s

Track(label) ==
  IF hist # Off /\ \E w \in Scenarios : IsPrefix(Append(hist, label), w)
  THEN Append(hist, label) ELSE Off

\* ---- construction: Network.__init__ (every Router.__init__ calls reset) ----
Init ==
  /\ topo \in Topologies
  /\ order \in Orders
  /\ costs = TopoCosts(topo)
  /\ dv = [a \in Addr |-> ResetDv(costs[a])]
  /\ converged = [a \in Addr |-> 2]
  /\ queues = [a \in Addr |-> <<>>]
  /\ log = <<>>
  /\ pc = "menu"
  /\ steps = 0
  /\ hist = <<>>
  /\ nmsgs = 0
  /\ nchanges = 0

\* the state S becomes the program's state; an uncaught exception ends main()
Commit(S, next) ==
  /\ dv' = S.dv
  /\ converged' = S.converged
  /\ queues' = S.queues
  /\ log' = S.log
  /\ pc' = IF S.raised THEN "exit" ELSE next

\* ---- menu choice 1: network.step() ----
Step ==
  /\ pc = "menu"
  /\ Len(log) < MaxLog
  /\ Commit(StepOf(Cur, topo, order), "menu")
  /\ hist' = Track("step")
  /\ steps' = 0
  /\ UNCHANGED <<topo, order, costs, nmsgs, nchanges>>

\* ---- menu choice 6: network.send_dv() ----
SendDVs ==
  /\ pc = "menu"
  /\ Commit(SendAll(Cur, topo, order), "menu")
  /\ hist' = Track("send")
  /\ steps' = 0
  /\ UNCHANGED <<topo, order, costs, nmsgs, nchanges>>

\* ---- menu choice 5: network.route() ----
Route ==
  /\ pc = "menu"
  /\ Len(log) < MaxLog
  /\ Commit(RouteAll(Cur, topo, order), "menu")
  /\ hist' = Track("route")
  /\ steps' = 0
  /\ UNCHANGED <<topo, order, costs, nmsgs, nchanges>>

\* ---- menu choice 2: network.reset() ----
Reset ==
  /\ pc = "menu"
  /\ dv' = [a \in Addr |-> ResetDv(costs[a])]
  /\ converged' = [a \in Addr |-> 2]
  /\ queues' = [a \in Addr |-> <<>>]
  /\ hist' = <<>>
  /\ steps' = 0
  /\ UNCHANGED <<topo, order, costs, log, pc, nmsgs, nchanges>>

\* ---- menu choice 3: send message ----
HTTPPacket(src, dst, msg) == [kind |-> "HTTP", src |-> src, dst |-> dst, msg |-> msg]

SendMessage(src, dst) ==
  /\ pc = "menu"
  /\ nmsgs + nchanges < MaxInputs
  /\ nmsgs' = nmsgs + 1
  /\ queues' = [queues EXCEPT ![src] = Append(@, HTTPPacket(src, dst, nmsgs + 1))]
  /\ log' = Append(log, Event("sent", src, HTTPPacket(src, dst, nmsgs + 1), dst, dv[src]))
  /\ hist' = Track("inject")
  /\ steps' = 0
  /\ UNCHANGED <<topo, order, costs, dv, converged, pc, nchanges>>

\* ---- menu choice 4: change link cost ("lowerAB": A's cost to B is lowered
\* ---- to 0 while every cost is still the topology file's) ----
\* the cost change writing the entry whether or not the cost is lower
ChangedDv_Always(d, dst, cost) == Put(d, dst, Entry(dst, cost))

ChangedDv(d, dst, cost) ==
  LET d1 == IF dst \in DOMAIN d THEN d ELSE Put(d, dst, Entry(dst, inf))
  IN  IF cost < d1[dst].cost THEN Put(d1, dst, Entry(dst, cost)) ELSE d1

\* the cost change without "converged = 2"
ChangedConverged_Keep(d, conv, dst, cost) == conv

ChangedConverged(d, conv, dst, cost) ==
  IF cost < (IF dst \in DOMAIN d THEN d[dst].cost ELSE inf) THEN 2 ELSE conv

ChangeLinkCost(src, dst, cost) ==
  /\ pc = "menu"
  /\ nmsgs + nchanges < MaxInputs
  /\ nchanges' = nchanges + 1
  /\ costs' = [costs EXCEPT ![src] = Put(@, dst, cost)]
  /\ dv' = [dv EXCEPT ![src] = ChangedDv(@, dst, cost)]
  /\ converged' = [converged EXCEPT ![src] = ChangedConverged(dv[src], @, dst, cost)]
  /\ hist' = Track(IF src = "A" /\ dst = "B" /\ cost = 0 /\ costs = TopoCosts(topo)
                   THEN "lowerAB" ELSE "cost")
  /\ steps' = 0
  /\ UNCHANGED <<topo, order, queues, log, pc, nmsgs>>

\* ---- menu choice 0: network.run_until_converged() ----
RunBegin ==
  /\ pc = "menu"
  /\ Len(log) < MaxLog
  /\ pc' = "run"
  /\ steps' = 0
  /\ UNCHANGED <<topo, order, costs, dv, converged, queues, log, hist, nmsgs, nchanges>>

\* the loop body without "steps += 1"
RunStep_NoCount ==
  /\ pc = "run"
  /\ ~is_stable(converged)
  /\ Commit(StepOf(Cur, topo, order), "run")
  /\ UNCHANGED <<topo, order, costs, steps, hist, nmsgs, nchanges>>

RunStep ==
  /\ pc = "run"
  /\ ~is_stable(converged)
  /\ Commit(StepOf(Cur, topo, order), "run")
  /\ steps' = steps + 1
  /\ UNCHANGED <<topo, order, costs, hist, nmsgs, nchanges>>

RunReturn ==
  /\ pc = "run"
  /\ is_stable(converged)
  /\ pc' = "menu"
  /\ hist' = Track("run")
  /\ UNCHANGED <<topo, order, costs, dv, converged, queues, log, steps, nmsgs, nchanges>>

Next ==
  \/ Step
  \/ SendDVs
  \/ Route
  \/ Reset
  \/ \E src \in Addr, dst \in Addr : SendMessage(src, dst)
  \/ \E src \in Addr, dst \in Addr, cost \in CostValues : ChangeLinkCost(src, dst, cost)
  \/ RunBegin
  \/ RunStep
  \/ RunReturn

Spec == Init /\ [][Next]_vars

\* ---- the program started on any symmetric topology file over the three
\* ---- routers, the driver choosing run_until_converged only ----
Links == {<<"A", "B">>, <<"B", "C">>, <<"A", "C">>}

\* link costs of the symmetric topology files
SymCosts == {0, 1, 9, 17}

\* the file of the links l with f[l] >= 0, both directions at cost f[l]
FileOf(f) ==
  UNION {IF f[l] < 0 THEN {}
         ELSE {<<l[1], l[2], f[l]>>, <<l[2], l[1], f[l]>>} : l \in Links}

\* every router is named by some line of the file
SymTopologies ==
  {t \in {FileOf(f) : f \in [Links -> SymCosts \cup {-1}]} :
     \A a \in Addr : Neighbors(t, a) # {}}

InitSym ==
  /\ topo \in SymTopologies
  /\ order \in Orders
  /\ costs = TopoCosts(topo)
  /\ dv = [a \in Addr |-> ResetDv(costs[a])]
  /\ converged = [a \in Addr |-> 2]
  /\ queues = [a \in Addr |-> <<>>]
  /\ log = <<>>
  /\ pc = "menu"
  /\ steps = 0
  /\ hist = <<>>
  /\ nmsgs = 0
  /\ nchanges = 0

NextSym ==
  \/ RunBegin
  \/ RunStep
  \/ RunReturn

SpecSym == InitSym /\ [][NextSym]_vars

TypeOK ==
  /\ pc \in {"menu", "run", "exit"}
  /\ \A a \in Addr : converged[a] \in 0..2 /\ DOMAIN dv[a] \subseteq Addr


\* =========================== properties ===========================

\* the driver's choices since the reset were h, and the last one has ended
After(h) == pc # "run" /\ hist = h

Min(a, b) == IF a < b THEN a ELSE b

\* C1. Self-route invariant: in every state, every router's distance vector
\* has an entry for its own address and that entry is (self, 0); in
\* particular right after construction and reset.
C1_SelfRoute ==
  \A a \in Addr : a \in DOMAIN dv[a] /\ dv[a][a] = Entry(a, 0)

\* C2. Convergence soundness: whenever is_stable() is true, one further
\* step() leaves every entry of every distance vector unchanged.
C2_StableIsFixpoint ==
  (pc = "menu" /\ is_stable(converged)) => StepOf(Cur, topo, order).dv = dv

\* C3. Convergence liveness, in the form a finite run refutes: a call of
\* run_until_converged that is under way either goes on stepping or returns
\* to the menu with every counter 0; it never ends otherwise.
C3_RunReturns ==
  [][pc = "run" => (pc' = "run" \/ (pc' = "menu" /\ is_stable(converged')))]_vars

\* C6. Cost upper bound: in every state no distance-vector entry costs more
\* than inf (16).
C6_CostBound ==
  \A a \in Addr : \A x \in DOMAIN dv[a] : dv[a][x].cost <= inf

\* the Distance-Vector packets that are first in a router's queue
HeadDV == {a \in Addr : queues[a] # <<>> /\ Head(queues[a]).kind = "DV"}

\* C7. Learning a new destination: a router that processes a vector from
\* neighbour src holding a destination dst it does not know (other than
\* itself) ends with the entry (src, min(16, C(self,src) + table[dst].cost))
\* and counter 2; and on the topology Line, two step() calls after reset
\* leave A with the entry (B, 6) for C.
C7_LearnNew ==
  /\ \A a \in HeadDV :
       LET p == Head(queues[a])
           table == dv[p.dv]
           csrc == IF p.src \in DOMAIN dv[a] THEN dv[a][p.src].cost ELSE inf
           r == update_dv(a, dv[a], converged[a], p.src, table)
       IN  \A dst \in DOMAIN table \ (DOMAIN dv[a] \cup {a}) :
             /\ r.dv[dst] = Entry(p.src, Min(inf, csrc + table[dst].cost))
             /\ r.converged = 2
  /\ (topo = Line /\ After(<<"step", "step">>)) =>
       ("C" \in DOMAIN dv["A"] /\ dv["A"]["C"] = Entry("B", 6))

\* C8. One-round propagation delay: every Distance-Vector packet processed
\* in a route sweep is applied with the sender's vector as it was when the
\* packet was enqueued.
C8_PacketCarriesSnapshot ==
  pc = "menu" => \A e \in RouteAll(Cur, topo, order).reads : e.used = e.sent

\* what router a has put on the queues, per queue, in order
RECURSIVE FromSender(_, _)
FromSender(q, a) ==
  IF q = <<>> THEN <<>>
  ELSE IF Head(q).src = a THEN <<Head(q)>> \o FromSender(Tail(q), a)
  ELSE FromSender(Tail(q), a)

\* C9. Order independence: from the same state, route() on every router
\* gives the same distance vectors and counters for every order of the
\* routers, and send_dv() on every router gives the same packets per sender.
C9_OrderIndependent ==
  pc = "menu" =>
    \A o1, o2 \in Orders :
      /\ RouteAll(Cur, topo, o1).dv = RouteAll(Cur, topo, o2).dv
      /\ RouteAll(Cur, topo, o1).converged = RouteAll(Cur, topo, o2).converged
      /\ \A a, b \in Addr :
           FromSender(SendAll(Cur, topo, o1).queues[b], a)
             = FromSender(SendAll(Cur, topo, o2).queues[b], a)


\* ---- the log, per Data packet ----
EventsOf(m, kinds) == {i \in DOMAIN log : log[i].msg = m /\ log[i].ev \in kinds}

RouteEvents == {"received", "dropped", "forwarded", "KeyError"}

InQueues(m) ==
  \E a \in Addr : \E i \in DOMAIN queues[a] :
    queues[a][i].kind = "HTTP" /\ queues[a][i].msg = m

\* the injection of Data packet m: at is its router, to its destination
SentOf(m) == log[CHOOSE i \in DOMAIN log : log[i].msg = m /\ log[i].ev = "sent"]

\* hops from a to b along the next hops of the distance vectors
RECURSIVE Hops(_, _, _)
Hops(a, b, fuel) ==
  IF a = b \/ fuel = 0 \/ a \notin Addr THEN 0
  ELSE IF b \notin DOMAIN dv[a] THEN 0
  ELSE 1 + Hops(dv[a][b].next_hop, b, fuel - 1)

ForwardRuns == {<<"run", "inject">>,
                <<"run", "inject", "route">>,
                <<"run", "inject", "route", "route">>,
                <<"run", "inject", "route", "route", "route">>}

\* C4. Forwarding correctness: a Data packet injected at router A of a
\* converged network (reset, run_until_converged) for a router B that A
\* has an entry for is never dropped, is forwarded only onto channels of
\* direct neighbours (the lookup of the channel never fails), is delivered
\* to B, and is forwarded as many times as A's path to B has hops.
C4_Forwarding ==
  (/\ \E h \in ForwardRuns : After(h)
   /\ SentOf(nmsgs).known
   /\ SentOf(nmsgs).to # SentOf(nmsgs).at
   /\ dv[SentOf(nmsgs).at][SentOf(nmsgs).to].cost < inf) =>
    LET m == nmsgs
        delivered == \E i \in EventsOf(m, {"received"}) : log[i].at = SentOf(m).to
    IN  /\ EventsOf(m, {"dropped", "KeyError"}) = {}
        /\ \A i \in EventsOf(m, {"forwarded"}) : log[i].to \in Neighbors(topo, log[i].at)
        /\ ~InQueues(m) => delivered
        /\ Len(hist) = 5 => delivered
        /\ delivered => Cardinality(EventsOf(m, {"forwarded"}))
                          = Hops(SentOf(m).at, SentOf(m).to, Cardinality(Addr))

\* C5 as stated: a Data packet injected with a destination (other than the
\* router itself) that is absent from the router's distance vector at the
\* time of injection is dropped at that router, and never delivered or
\* forwarded, whatever else is queued and whatever operations follow.
C5_DropAtInjection ==
  \A i \in DOMAIN log :
    (log[i].ev = "sent" /\ ~log[i].known /\ log[i].to # log[i].at) =>
      /\ EventsOf(log[i].msg, {"received", "forwarded", "KeyError"}) = {}
      /\ \A j \in EventsOf(log[i].msg, {"dropped"}) : log[j].at = log[i].at

\* C5 amended: the moment that counts is when route() takes the packet from
\* the queue. If the destination is then not the router itself and absent
\* from its distance vector, the packet is dropped there: a drop event, the
\* packet is on no channel afterwards and nothing further happens to it.
C5_DropAtDequeue ==
  \A i \in DOMAIN log :
    (log[i].ev \in RouteEvents /\ ~log[i].known /\ SentOf(log[i].msg).to # log[i].at) =>
      /\ log[i].ev = "dropped"
      /\ ~InQueues(log[i].msg)
      /\ \A j \in EventsOf(log[i].msg, RouteEvents) : j <= i

C5_Witness ==
  \E i \in DOMAIN log :
    log[i].ev = "dropped" /\ ~log[i].known /\ SentOf(log[i].msg).to # log[i].at

LowerRun == <<"run", "lowerAB", "step", "step", "step">>

\* C10 as stated: on Line, after reset and run_until_converged, lowering
\* A's cost to B from 1 to 0 and one step() leaves A's counter at 2, and
\* within two further step() calls B's cost for A is 0.
C10_LowerCostScenario ==
  topo = Line =>
    /\ After(SubSeq(LowerRun, 1, 3)) => converged["A"] = 2
    /\ After(LowerRun) => dv["B"]["A"].cost = 0

\* C10 amended: the change itself sets A's entry for B to (B, 0) and A's
\* counter to 2; the step() that follows leaves A's counter at 1 (A has
\* broadcast once and nothing new has reached it); B's entry for A stays
\* (A, 1) through the three step() calls, since only A's own cost to B
\* was changed.
C10_LowerCostAmended ==
  topo = Line =>
    /\ After(SubSeq(LowerRun, 1, 2)) =>
         (converged["A"] = 2 /\ dv["A"]["B"] = Entry("B", 0))
    /\ After(SubSeq(LowerRun, 1, 3)) => converged["A"] = 1
    /\ \A n \in 3..5 : After(SubSeq(LowerRun, 1, n)) => dv["B"]["A"] = Entry("A", 1)

C10_Witness == topo = Line /\ After(LowerRun)


\* C11. reset() restores the initial state: every Reset step, from whatever
\* state, ends with every distance vector equal to the one derived from the
\* topology file (neighbour -> (neighbour, link cost)), every counter 2 and
\* every queue empty.
C11_ResetRestores ==
  [][Reset => /\ dv' = [a \in Addr |-> ResetDv(TopoCosts(topo)[a])]
              /\ converged' = [a \in Addr |-> 2]
              /\ queues' = [a \in Addr |-> <<>>]]_vars

\* the contract of send_dv for router a, stated on the state before (S) and
\* after (R) the call
SendContract(S, R, a) ==
  IF S.converged[a] = 0 THEN R = S
  ELSE /\ R.converged = [S.converged EXCEPT ![a] = @ - 1]
       /\ R.dv = S.dv
       /\ \A b \in Addr \ Neighbors(topo, a) : R.queues[b] = S.queues[b]
       /\ \A b \in Neighbors(topo, a) :
            /\ Len(R.queues[b]) = Len(S.queues[b]) + 1
            /\ SubSeq(R.queues[b], 1, Len(S.queues[b])) = S.queues[b]
            /\ LET p == R.queues[b][Len(R.queues[b])]
               IN  /\ p.kind = "DV" /\ p.src = a /\ p.dst = b
                   /\ p.dv = a /\ p.sent = S.dv[a]

\* C12. send_dv contract: with counter 0 the call changes nothing; with
\* counter 1 or 2 it decrements the counter by one, leaves every vector and
\* every other counter alone, and appends exactly one Distance-Vector packet
\* (src the router, dst the neighbour, the router's whole current vector) to
\* the queue of each direct neighbour and to no other queue.
C12_SendContract ==
  /\ \A a \in Addr : converged[a] \in 0..2
  /\ pc # "exit" => \A a \in Addr : SendContract(Cur, send_dv(Cur, topo, a), a)

\* both cases of the contract have happened: a router whose counter has
\* reached 0, and a router that has sent once and whose packet is queued
C12_Witness ==
  /\ \E a \in Addr : converged[a] = 0
  /\ \E a \in Addr, b \in Addr :
       /\ converged[a] = 1
       /\ \E i \in DOMAIN queues[b] : queues[b][i].kind = "DV" /\ queues[b][i].src = a

\* C13. Example run length: on the topology Line with the costs of its
\* file, run_until_converged() called right after construction or reset()
\* returns 2 or 3, is_stable() is true afterwards and one further step()
\* leaves every distance vector unchanged, for every order of the routers.
C13_ExampleRun ==
  (topo = Line /\ costs = TopoCosts(Line) /\ After(<<"run">>)) =>
    /\ steps \in {2, 3}
    /\ is_stable(converged)
    /\ StepOf(Cur, topo, order).dv = dv

C13_Witness ==
  /\ topo = Line /\ costs = TopoCosts(Line) /\ After(<<"run">>)
  /\ pc = "menu" /\ order = <<"C", "A", "B">>

\* one relaxation of router x with the vector table advertised by v, link
\* cost c, from the dict d to the dict r, as C14 states it
Relaxed(x, d, r, v, table, c) ==
  /\ \A y \in (DOMAIN table \cap DOMAIN d) \ {x} :
       LET cand == c + table[y].cost
       IN  /\ r[y].cost = Min(inf, Min(d[y].cost, cand))
           /\ r[y].next_hop = IF cand < d[y].cost THEN v ELSE d[y].next_hop
  /\ \A y \in DOMAIN d \ (DOMAIN table \cup {x}) :
       r[y] = Entry(d[y].next_hop, Min(inf, d[y].cost))

\* C14. Bellman-Ford relaxation step: when router x processes a vector
\* advertised by a direct neighbour v, every destination y of that vector
\* that x already knew (y # x) ends with cost min(old cost, C(x,v) +
\* advertised cost) capped at 16, C(x,v) being x's link cost to v, equal to
\* x's distance-vector cost for v; its next hop becomes v exactly when the
\* candidate is strictly lower; other entries only get clamped.
C14_Relaxation ==
  \A x \in HeadDV :
    LET p == Head(queues[x])
        r == update_dv(x, dv[x], converged[x], p.src, dv[p.dv])
    IN  (p.src \in Neighbors(topo, x) /\ p.src # x) =>
          /\ p.src \in DOMAIN dv[x] /\ dv[x][p.src].cost = costs[x][p.src]
          /\ Relaxed(x, dv[x], r.dv, p.src, dv[p.dv], costs[x][p.src])

\* C15. Convergence counter meaning: every counter is always 0, 1 or 2, and
\* every operation that adds or modifies an entry of a router's distance
\* vector leaves that router's counter at 2 (so a counter that has come down
\* to 0 tells of two rounds without a change).
C15_CounterMeaning ==
  [][\A a \in Addr : /\ converged'[a] \in 0..2
                     /\ dv'[a] # dv[a] => converged'[a] = 2]_vars

\* C16. Link-cost mutation effect: changing router s's link cost to a
\* direct neighbour d to a value strictly lower than the cost of s's entry
\* for d sets that entry to (d, new cost) and s's counter to 2; a value that
\* is not lower leaves s's vector and counter unchanged; either way no other
\* router's vector or counter and no queue is modified.
C16_CostChange ==
  [][\A s \in Addr, d \in Addr, c \in CostValues :
       (ChangeLinkCost(s, d, c) /\ d \in Neighbors(topo, s)) =>
         /\ IF c < dv[s][d].cost
            THEN dv'[s] = [dv[s] EXCEPT ![d] = Entry(d, c)] /\ converged'[s] = 2
            ELSE dv'[s] = dv[s] /\ converged'[s] = converged[s]
         /\ \A a \in Addr \ {s} : dv'[a] = dv[a] /\ converged'[a] = converged[a]
         /\ queues' = queues]_vars

\* a lowering has acted on a converged network: A's entry and counter are
\* set, the other counters are still 0
C16_Witness ==
  /\ After(<<"run", "lowerAB">>)
  /\ dv["A"]["B"] = Entry("B", 0) /\ converged["A"] = 2
  /\ converged["B"] = 0 /\ converged["C"] = 0

\* the Data packets of a queue, in order
DataIn(q) == SelectSeq(q, LAMBDA p : p.kind = "HTTP")

\* how often Data packet m is on the queues qs
Copies(qs, m) ==
  Cardinality({<<a, i>> \in Addr \X (1..(MaxInputs + 1)) :
                 i \in DOMAIN DataIn(qs[a]) /\ DataIn(qs[a])[i].msg = m})

\* route() of router a, from the current state to R, as C17 states it
RouteContract(a, R) ==
  LET data == DataIn(queues[a])
      ev == SubSeq(R.log, Len(log) + 1, Len(R.log))
      pairs == [i \in DOMAIN data |-> [p |-> data[i], e |-> ev[i]]]
      fwd(b) == SelectSeq(pairs, LAMBDA x : x.e.ev = "forwarded" /\ x.e.to = b)
  IN  /\ ~R.raised
      /\ R.queues[a] = <<>>
      /\ Len(ev) = Len(data)
      /\ \A i \in DOMAIN data :
           /\ ev[i].msg = data[i].msg /\ ev[i].at = a
           /\ ev[i].ev = IF data[i].dst = a THEN "received"
                         ELSE IF ~ev[i].known THEN "dropped" ELSE "forwarded"
      /\ \A b \in Addr \ {a} :
           R.queues[b] = queues[b] \o [i \in DOMAIN fwd(b) |-> fwd(b)[i].p]
      /\ \A m \in 1..nmsgs : Copies(R.queues, m) <= 1

\* C17. route() drains exactly what is present: a call of route() on a
\* router returns with its queue empty, having handled every packet that was
\* in the queue, once and in arrival order (delivered if for the router,
\* dropped if the destination has no entry, else forwarded unchanged onto one
\* queue), and nothing else; a Data packet is never duplicated.
C17_RouteDrains ==
  pc = "menu" => \A a \in Addr : RouteContract(a, route(Cur, topo, a))

\* C18. Next hop is always a direct neighbour: in every state, every entry
\* of a router's distance vector for a destination other than the router has
\* a next hop for which the router holds an outbound queue.
C18_NextHopNeighbor ==
  \A a \in Addr : \A x \in DOMAIN dv[a] \ {a} :
    dv[a][x].next_hop \in Neighbors(topo, a)

\* every edge of t has a reverse edge of equal cost
Symmetric(t) == \A e \in t : <<e[2], e[1], e[3]>> \in t

\* more than any path over the links costs
NoPath == inf * inf

\* cost of the cheapest path from x to y over at most k links of costs c
\* (NoPath when there is none)
RECURSIVE PathCost(_, _, _, _)
PathCost(c, x, y, k) ==
  IF x = y THEN 0
  ELSE IF k = 0 THEN NoPath
  ELSE LET via == {c[x][z] + PathCost(c, z, y, k - 1) : z \in DOMAIN c[x]}
       IN  IF via = {} THEN NoPath
           ELSE Min(NoPath, CHOOSE m \in via : \A n \in via : m <= n)

\* C19. Converged costs are shortest-path costs: on a topology whose every
\* edge has a reverse edge of equal cost, after reset() and
\* run_until_converged() every router x has, for every router y it can
\* reach, an entry whose cost is min(16, cost of the cheapest path from x to
\* y), whatever the order of the routers.
C19_ShortestPaths ==
  (Symmetric(topo) /\ costs = TopoCosts(topo) /\ After(<<"run">>)) =>
    \A x \in Addr, y \in Addr :
      PathCost(costs, x, y, Cardinality(Addr)) < NoPath =>
        /\ y \in DOMAIN dv[x]
        /\ dv[x][y].cost = Min(inf, PathCost(costs, x, y, Cardinality(Addr)))

\* a run has ended on a topology where the direct link from A to C costs 9
\* and the path over B costs 2
C19_Witness ==
  /\ Symmetric(topo) /\ costs = TopoCosts(topo) /\ After(<<"run">>)
  /\ "C" \in DOMAIN costs["A"] /\ costs["A"]["C"] = 9
  /\ dv["A"]["C"].cost = 2

\* C20. Monotone vectors between resets: every step of the program other
\* than reset() keeps every destination of every distance vector and leaves
\* each entry's cost unchanged or lower (link costs being non-negative).
C20_Monotone ==
  [][Reset \/ \A a \in Addr : \A x \in DOMAIN dv[a] :
                /\ x \in DOMAIN dv'[a]
                /\ dv'[a][x].cost <= dv[a][x].cost]_vars

\* costs have been lowered: A's entry for C by relaxation over B, from the
\* direct link's 5 to 2, and some router's entry by a link-cost change to 0
C20_Witness ==
  /\ topo = Triangle /\ dv["A"]["C"] = Entry("B", 2)
  /\ \E s \in Addr : \E d \in DOMAIN costs[s] : costs[s][d] = 0 /\ dv[s][d].cost = 0

====
